---- MODULE Spec2Model ----
(***************************************************************************)
(* A model of mylis/mylis_2/lis.py: the Environment (a ChainMap with an    *)
(* in-place change), Procedure, the special forms and the evaluate loop    *)
(* with its tail-call trampoline, driven by the read-evaluate-print loop.  *)
(*                                                                         *)
(* The Python call stack is explicit: `stack` holds one record per active  *)
(* invocation of evaluate, cond_form, or_form, and_form or                 *)
(* Procedure.__call__, and each action is one step of one of them.         *)
(***************************************************************************)
EXTENDS Integers, Sequences, FiniteSets, TLC

VARIABLES
    envs,    \* the Environment objects: envs[1] is the global environment
    procs,   \* the Procedure objects, in creation order
    stack,   \* the active invocations, outermost first
    exc,     \* the exception being propagated, or NoExc
    script,  \* the forms the REPL is given, one per input line
    line,    \* how many of them the REPL has read
    out,     \* what the REPL has printed
    source,  \* the text given to parse
    tokens   \* the token list read_from_tokens pops from

vars == <<envs, procs, stack, exc, script, line, out, source, tokens>>

----------------------------------------------------------------------------
(* Expressions and values.  An Expression is an Atom or a list; a value is *)
(* an Expression, a bool, None, a primitive or a Procedure (by reference). *)

Num(n) == [t |-> "int", n |-> n]
Sym(s) == [t |-> "sym", s |-> s]
L(items) == [t |-> "list", items |-> items]
Bool(b) == [t |-> "bool", b |-> b]
None == [t |-> "none"]
Prim(name) == [t |-> "prim", s |-> name]
ProcRef(id) == [t |-> "proc", id |-> id]

\* A local variable that has not been assigned yet.
Unbound == [t |-> "unbound"]
\* What a failed ChainMap operation gives instead of a result.
KeyErr == [t |-> "KeyError"]

NoExc == ""

IsNum(v) == v.t \in {"int", "bool"}
NumOf(v) == IF v.t = "int" THEN v.n ELSE IF v.b THEN 1 ELSE 0

\* Python's truth value of a value (`if value:`).
Truthy(v) ==
    CASE v.t = "int" -> v.n # 0
      [] v.t = "bool" -> v.b
      [] v.t = "sym" -> v.s # ""
      [] v.t = "list" -> v.items # <<>>
      [] v.t = "none" -> FALSE
      [] v.t \in {"prim", "proc"} -> TRUE

----------------------------------------------------------------------------
(* Environment: ChainMap(local dict) for the global environment and         *)
(* ChainMap(local dict, definition_env) for an application environment, so  *)
(* maps[0] is `vars` and maps[1], when present, is the Environment `parent`.*)

\* ChainMap.__contains__: any(key in m for m in self.maps)
RECURSIVE Contains(_, _, _)
Contains(h, e, key) ==
    \/ key \in DOMAIN h[e].vars
    \/ h[e].parent # 0 /\ Contains(h, h[e].parent, key)

\* A lookup that searches self.maps from the last map to the first.
RECURSIVE GetItemOutermostFirst(_, _, _)
GetItemOutermostFirst(h, e, key) ==
    IF h[e].parent # 0 /\ Contains(h, h[e].parent, key)
    THEN GetItemOutermostFirst(h, h[e].parent, key)
    ELSE IF key \in DOMAIN h[e].vars THEN h[e].vars[key]
    ELSE KeyErr

\* ChainMap.__getitem__: the first of self.maps that has the key.
RECURSIVE GetItem(_, _, _)
GetItem(h, e, key) ==
    IF key \in DOMAIN h[e].vars THEN h[e].vars[key]
    ELSE IF h[e].parent # 0 THEN GetItem(h, h[e].parent, key)
    ELSE KeyErr

\* A __setitem__ that writes where the key is found, as change does.
SetItemWhereFound(h, e, key, value) ==
    IF key \notin DOMAIN h[e].vars /\ h[e].parent # 0 /\ Contains(h, h[e].parent, key)
    THEN [h EXCEPT ![h[e].parent].vars = (key :> value) @@ @]
    ELSE [h EXCEPT ![e].vars = (key :> value) @@ @]

\* ChainMap.__setitem__: self.maps[0][key] = value
SetItem(h, e, key, value) == [h EXCEPT ![e].vars = (key :> value) @@ @]

\* Environment.change: the first of self.maps that contains the key gets
\* map[key] = value; for maps[1] that is the parent's own __setitem__.
\* Gives [ok, h]: ok is FALSE when the loop ends and KeyError is raised.
Change(h, e, key, value) ==
    IF key \in DOMAIN h[e].vars
    THEN [ok |-> TRUE, h |-> [h EXCEPT ![e].vars[key] = value]]
    ELSE IF h[e].parent # 0 /\ Contains(h, h[e].parent, key)
         THEN [ok |-> TRUE, h |-> SetItem(h, h[e].parent, key, value)]
    ELSE [ok |-> FALSE, h |-> h]

\* Environment(local_env, definition_env)
\* An Environment whose bindings are written into its parent's frame too.
NewEnvLeaking(h, local, parent) ==
    Append([h EXCEPT ![parent].vars = local @@ @], [vars |-> local, parent |-> parent])

\* Environment(local_env, definition_env)
NewEnv(h, local, parent) == Append(h, [vars |-> local, parent |-> parent])

----------------------------------------------------------------------------
(* Procedure *)

TCO_DISABLED == FALSE
TCO_ENABLED == TRUE

EmptyDict == [k \in {} |-> None]

\* A pairing that fails when the two lists differ in length.
ZipDictStrict(parms, args) ==
    LET symbols == {n \in 1..Len(parms) : parms[n].t = "sym"} IN
    IF Len(parms) # Len(args) \/ \E n \in 1..Len(parms) : parms[n].t = "list"
    THEN [ok |-> FALSE, d |-> EmptyDict]
    ELSE [ok |-> TRUE,
          d |-> [name \in {parms[n].s : n \in symbols} |->
                    args[CHOOSE n \in symbols : parms[n].s = name]]]

\* dict(zip(parms, args)): pairs up to the shorter of the two, a later
\* pair replacing an earlier one with the same key.  A key that is a list is
\* unhashable (TypeError, ok = FALSE); a key that is a number is kept by
\* Python but no Symbol ever equals it, so the model leaves it out.
RECURSIVE ZipDict(_, _)
ZipDict(parms, args) ==
    IF parms = <<>> \/ args = <<>> THEN [ok |-> TRUE, d |-> EmptyDict]
    ELSE LET rest == ZipDict(Tail(parms), Tail(args))
             p == Head(parms)
         IN  IF p.t = "list" \/ ~rest.ok THEN [ok |-> FALSE, d |-> EmptyDict]
             ELSE IF p.t = "sym" /\ p.s \notin DOMAIN rest.d
                  THEN [ok |-> TRUE, d |-> (p.s :> Head(args)) @@ rest.d]
             ELSE rest

\* Procedure.application_env: [ok, h, env], the heap with the new
\* Environment in it and its index.
ApplicationEnv(h, proc, args) ==
    LET local == ZipDict(proc.parms, args)
    IN  [ok |-> local.ok,
         h |-> IF local.ok THEN NewEnv(h, local.d, proc.env) ELSE h,
         env |-> Len(h) + 1]

----------------------------------------------------------------------------
(* The global environment.  standard_env binds vars(math) and 32 operators *)
(* and functions; the model keeps the ones below.                          *)

PrimNames == {"+", "-", "=", "//", "apply", "list", "begin"}

standard_env == [vars |-> [k \in PrimNames |-> Prim(k)], parent |-> 0]

\* Python's == on two values (op.eq).  Procedures compare by identity.
RECURSIVE PyEq(_, _)
PyEq(a, b) ==
    IF IsNum(a) /\ IsNum(b) THEN NumOf(a) = NumOf(b)
    ELSE IF a.t # b.t THEN FALSE
    ELSE IF a.t = "list"
         THEN /\ Len(a.items) = Len(b.items)
              /\ \A k \in 1..Len(a.items) : PyEq(a.items[k], b.items[k])
    ELSE a = b

Val(v) == [k |-> "val", v |-> v]
Exc(e) == [k |-> "exc", e |-> e]

\* op.add: numbers add, strings and lists concatenate.
Add(a, b) ==
    IF IsNum(a) /\ IsNum(b) THEN Val(Num(NumOf(a) + NumOf(b)))
    ELSE IF a.t = "sym" /\ b.t = "sym" THEN Val(Sym(a.s \o b.s))
    ELSE IF a.t = "list" /\ b.t = "list" THEN Val(L(a.items \o b.items))
    ELSE Exc("TypeError")

\* op.sub
Sub(a, b) ==
    IF IsNum(a) /\ IsNum(b) THEN Val(Num(NumOf(a) - NumOf(b)))
    ELSE Exc("TypeError")

\* op.floordiv on numbers: Python rounds toward minus infinity.
FloorDiv(a, b) ==
    IF ~(IsNum(a) /\ IsNum(b)) THEN Exc("TypeError")
    ELSE IF NumOf(b) = 0 THEN Exc("ZeroDivisionError")
    ELSE IF NumOf(b) > 0 THEN Val(Num(NumOf(a) \div NumOf(b)))
    ELSE Val(Num((0 - NumOf(a)) \div (0 - NumOf(b))))

\* proc( *values) for a value that is not run by the trampoline: the value
\* returned, the exception raised, or the Procedure.__call__ it enters (apply
\* returns what the procedure it is given returns).
RECURSIVE Invoke(_, _)
Invoke(proc, values) ==
    IF proc.t = "proc" THEN [k |-> "call", proc |-> proc, args |-> values]
    ELSE IF proc.t # "prim" THEN Exc("TypeError")      \* not callable
    ELSE CASE proc.s = "+" ->
                IF Len(values) # 2 THEN Exc("TypeError")
                ELSE Add(values[1], values[2])
           [] proc.s = "-" ->
                IF Len(values) # 2 THEN Exc("TypeError")
                ELSE Sub(values[1], values[2])
           [] proc.s = "//" ->
                IF Len(values) # 2 THEN Exc("TypeError")
                ELSE FloorDiv(values[1], values[2])
           [] proc.s = "=" ->
                IF Len(values) # 2 THEN Exc("TypeError")
                ELSE Val(Bool(PyEq(values[1], values[2])))
           [] proc.s = "list" -> Val(L(values))
           [] proc.s = "begin" ->
                IF values = <<>> THEN Exc("IndexError")
                ELSE Val(values[Len(values)])
           [] proc.s = "apply" ->
                IF Len(values) # 2 THEN Exc("TypeError")
                ELSE CASE values[2].t = "list" ->
                            Invoke(values[1], values[2].items)
                       [] values[2].t \in {"int", "bool", "none", "prim", "proc"} ->
                            Exc("TypeError")           \* not iterable

----------------------------------------------------------------------------
(* lispstr *)

Digit == <<"0", "1", "2", "3", "4", "5", "6", "7", "8", "9">>

RECURSIVE NatStr(_)
NatStr(n) ==
    IF n < 10 THEN Digit[n + 1] ELSE NatStr(n \div 10) \o Digit[(n % 10) + 1]

\* str(x) of a value that is not a list.  The text Python gives for a
\* callable holds its address; the model writes only its kind.
Str(v) ==
    CASE v.t = "int" -> IF v.n < 0 THEN "-" \o NatStr(0 - v.n) ELSE NatStr(v.n)
      [] v.t = "sym" -> v.s
      [] v.t = "bool" -> IF v.b THEN "True" ELSE "False"
      [] v.t = "none" -> "None"
      [] v.t = "prim" -> IF v.s \in {"apply", "begin", "list"}
                         THEN "<function <lambda>>" ELSE "<built-in function>"
      [] v.t = "proc" -> "<Procedure object>"

RECURSIVE Join(_)
RECURSIVE lispstr(_)
Join(strs) ==
    IF strs = <<>> THEN ""
    ELSE IF Len(strs) = 1 THEN strs[1]
    ELSE strs[1] \o " " \o Join(Tail(strs))
lispstr(exp) ==
    IF exp.t = "list"
    THEN "(" \o Join([k \in 1..Len(exp.items) |-> lispstr(exp.items[k])]) \o ")"
    ELSE Str(exp)

----------------------------------------------------------------------------
(* evaluate: the match statement *)

KEYWORDS_1 == <<"quote", "if", "define", "lambda">>
KEYWORDS_2 == <<"set!", "cond", "or", "and", "begin">>
KEYWORDS == KEYWORDS_1 \o KEYWORDS_2

IsList(e) == e.t = "list"
IsSymbol(e) == e.t = "sym"
\* a sequence pattern whose first element is the literal `word`
HeadIs(e, word) ==
    IsList(e) /\ Len(e.items) >= 1 /\ IsSymbol(e.items[1]) /\ e.items[1].s = word
\* A guard that lets every operator through.
NotInKeywordsAlways(op) == TRUE

\* `op not in KEYWORDS`
NotInKeywords(op) ==
    ~(IsSymbol(op) /\ \E k \in 1..Len(KEYWORDS) : KEYWORDS[k] = op.s)

\* The first case of the match statement that `exp` matches.
Case(exp) ==
    IF exp.t \in {"int", "bool"} THEN "number"
    ELSE IF IsSymbol(exp) THEN "symbol"
    ELSE IF (HeadIs(exp, "quote") \/ HeadIs(exp, "'")) /\ Len(exp.items) = 2
         THEN "quote"
    ELSE IF HeadIs(exp, "if") /\ Len(exp.items) = 4 THEN "if"
    ELSE IF HeadIs(exp, "define") /\ Len(exp.items) = 3 /\ IsSymbol(exp.items[2])
         THEN "define"
    ELSE IF HeadIs(exp, "set!") /\ Len(exp.items) = 3 /\ IsSymbol(exp.items[2])
         THEN "set!"
    ELSE IF /\ HeadIs(exp, "define") /\ Len(exp.items) >= 2
            /\ IsList(exp.items[2]) /\ Len(exp.items[2].items) >= 1
            /\ IsSymbol(exp.items[2].items[1])
            /\ Len(exp.items) - 2 > 0
         THEN "define_proc"
    ELSE IF /\ HeadIs(exp, "lambda") /\ Len(exp.items) >= 2
            /\ IsList(exp.items[2])
            /\ Len(exp.items) - 2 > 0
         THEN "lambda"
    ELSE IF HeadIs(exp, "cond") THEN "cond"
    ELSE IF HeadIs(exp, "or") THEN "or"
    ELSE IF HeadIs(exp, "and") THEN "and"
    ELSE IF HeadIs(exp, "begin") THEN "begin"
    ELSE IF IsList(exp) /\ Len(exp.items) >= 1 /\ NotInKeywords(exp.items[1])
         THEN "application"
    ELSE "invalid"

----------------------------------------------------------------------------
(* The call stack *)

\* A new invocation of function fn on (exp, env); i and j count the
\* iterations of its loops; proc, vals (`values`) and result (`result`,
\* `value`, and what the invocation returns) are its locals.
Frame(fn, pc, exp, env, result) ==
    [fn |-> fn, pc |-> pc, exp |-> exp, env |-> env, i |-> 0, j |-> 0,
     proc |-> Unbound, vals |-> <<>>, result |-> result]

EvaluateFrame(exp, env) == Frame("evaluate", "start", exp, env, Unbound)

Top == stack[Len(stack)]
Caller == stack[Len(stack) - 1]
Below(n) == SubSeq(stack, 1, Len(stack) - n)

\* The innermost invocation is function fn at position pc.
Running(fn, pc) ==
    /\ exc = NoExc /\ stack # <<>>
    /\ Top.fn = fn /\ Top.pc = pc

\* The innermost invocation has returned to function fn waiting at pc.
Returned(fn, pc) ==
    /\ exc = NoExc /\ Len(stack) >= 2
    /\ Top.pc = "done"
    /\ Caller.fn = fn /\ Caller.pc = pc

\* The stack `base` with invocation f on it, continuing, calling or raising.
Goto(base, f) == stack' = Append(base, f)
Call(base, f, callee) == stack' = Append(Append(base, f), callee)
Return(base, f, value) ==
    stack' = Append(base, [f EXCEPT !.pc = "done", !.result = value])
Raise(base, f, kind) ==
    /\ stack' = Append(base, [f EXCEPT !.pc = "raised"])
    /\ exc' = kind

----------------------------------------------------------------------------
(* evaluate, case by case.  Every action is one pass through the while     *)
(* loop up to its next nested call, or the step that follows the return of *)
(* a nested call.                                                          *)

AtCase(c) == Running("evaluate", "start") /\ Case(Top.exp) = c

\* case int(x) | float(x): return x
EvalNumber ==
    /\ AtCase("number")
    /\ Return(Below(1), Top, Top.exp)
    /\ UNCHANGED <<envs, procs, exc, script, source, tokens, line, out>>

\* case Symbol(var): return env[var], KeyError becoming UndefinedSymbol
EvalSymbol ==
    /\ AtCase("symbol")
    /\ LET value == GetItem(envs, Top.env, Top.exp.s)
       IN  IF value = KeyErr
           THEN Raise(Below(1), Top, "UndefinedSymbol")
           ELSE Return(Below(1), Top, value) /\ UNCHANGED exc
    /\ UNCHANGED <<envs, procs, script, source, tokens, line, out>>

\* case ['quote' | "'", exp]: return exp
EvalQuote ==
    /\ AtCase("quote")
    /\ Return(Below(1), Top, Top.exp.items[2])
    /\ UNCHANGED <<envs, procs, exc, script, source, tokens, line, out>>

\* case ['if', test, consequence, alternative]: evaluate(test, env) ...
EvalIf ==
    /\ AtCase("if")
    /\ Call(Below(1), [Top EXCEPT !.pc = "if_test"],
            EvaluateFrame(Top.exp.items[2], Top.env))
    /\ UNCHANGED <<envs, procs, exc, script, source, tokens, line, out>>

\* ... then exp = consequence or exp = alternative, and loop
IfBranch ==
    /\ Returned("evaluate", "if_test")
    /\ Goto(Below(2), [Caller EXCEPT
            !.pc = "start",
            !.exp = IF Truthy(Top.result) THEN Caller.exp.items[3]
                    ELSE Caller.exp.items[4]])
    /\ UNCHANGED <<envs, procs, exc, script, source, tokens, line, out>>

\* case ['define', Symbol(var), value_exp]: evaluate(value_exp, env) ...
EvalDefine ==
    /\ AtCase("define")
    /\ Call(Below(1), [Top EXCEPT !.pc = "define_value"],
            EvaluateFrame(Top.exp.items[3], Top.env))
    /\ UNCHANGED <<envs, procs, exc, script, source, tokens, line, out>>

\* ... then env[var] = value; return
DefineBind ==
    /\ Returned("evaluate", "define_value")
    /\ envs' = SetItem(envs, Caller.env, Caller.exp.items[2].s, Top.result)
    /\ Return(Below(2), Caller, None)
    /\ UNCHANGED <<procs, exc, script, source, tokens, line, out>>

\* case ['set!', Symbol(var), value_exp]: evaluate(value_exp, env) ...
EvalSet ==
    /\ AtCase("set!")
    /\ Call(Below(1), [Top EXCEPT !.pc = "set_value"],
            EvaluateFrame(Top.exp.items[3], Top.env))
    /\ UNCHANGED <<envs, procs, exc, script, source, tokens, line, out>>

\* ... then env.change(var, value); return.  change raises KeyError.
SetChange ==
    /\ Returned("evaluate", "set_value")
    /\ LET r == Change(envs, Caller.env, Caller.exp.items[2].s, Top.result)
       IN  IF r.ok
           THEN envs' = r.h /\ Return(Below(2), Caller, None) /\ UNCHANGED exc
           ELSE Raise(Below(2), Caller, "KeyError") /\ UNCHANGED envs
    /\ UNCHANGED <<procs, script, source, tokens, line, out>>

\* A Procedure that keeps the global environment, not the one it is made in.
NewProcedureGlobal(parms, body, env) == [parms |-> parms, body |-> body, env |-> 1]

\* Procedure(parms, body, env)
NewProcedure(parms, body, env) == [parms |-> parms, body |-> body, env |-> env]

\* case ['define', [Symbol(name), *parms], *body] if len(body) > 0:
\*     env[name] = Procedure(parms, body, env); return
EvalDefineProc ==
    /\ AtCase("define_proc")
    /\ LET e == Top.exp.items
       IN  procs' = Append(procs, NewProcedure(Tail(e[2].items),
                                               SubSeq(e, 3, Len(e)), Top.env))
    /\ envs' = SetItem(envs, Top.env, Top.exp.items[2].items[1].s,
                       ProcRef(Len(procs) + 1))
    /\ Return(Below(1), Top, None)
    /\ UNCHANGED <<exc, script, source, tokens, line, out>>

\* case ['lambda', [*parms], *body] if len(body) > 0:
\*     return Procedure(parms, body, env)
EvalLambda ==
    /\ AtCase("lambda")
    /\ LET e == Top.exp.items
       IN  procs' = Append(procs, NewProcedure(e[2].items,
                                               SubSeq(e, 3, Len(e)), Top.env))
    /\ Return(Below(1), Top, ProcRef(Len(procs) + 1))
    /\ UNCHANGED <<envs, exc, script, source, tokens, line, out>>

\* case ['cond', *clauses]: return cond_form(clauses, env)
EvalCond ==
    /\ AtCase("cond")
    /\ Call(Below(1), [Top EXCEPT !.pc = "return_call"],
            Frame("cond_form", "loop", L(Tail(Top.exp.items)), Top.env, Unbound))
    /\ UNCHANGED <<envs, procs, exc, script, source, tokens, line, out>>

\* case ['or', *expressions]: return or_form(expressions, env)
EvalOr ==
    /\ AtCase("or")
    /\ Call(Below(1), [Top EXCEPT !.pc = "return_call"],
            Frame("or_form", "loop", L(Tail(Top.exp.items)), Top.env, Bool(FALSE)))
    /\ UNCHANGED <<envs, procs, exc, script, source, tokens, line, out>>

\* case ['and', *expressions]: return and_form(expressions, env)
EvalAnd ==
    /\ AtCase("and")
    /\ Call(Below(1), [Top EXCEPT !.pc = "return_call"],
            Frame("and_form", "loop", L(Tail(Top.exp.items)), Top.env, Bool(TRUE)))
    /\ UNCHANGED <<envs, procs, exc, script, source, tokens, line, out>>

\* `return f(...)`: what the special form or the called Procedure returned
\* is what evaluate returns.
ReturnCall ==
    /\ \/ Returned("evaluate", "return_call")
       \/ Returned("evaluate", "try_call")
    /\ Return(Below(2), Caller, Top.result)
    /\ UNCHANGED <<envs, procs, exc, script, source, tokens, line, out>>

\* case ['begin', *expressions]: for exp in expressions[:-1]:
\*     evaluate(exp, env) ...
\* ... exp = expressions[-1], and loop.  expressions[-1] of an empty list
\* raises IndexError.
BeginLoop(base, f) ==
    LET expressions == Tail(f.exp.items)
    IN  IF f.i < Len(expressions) - 1
        THEN /\ Call(base, [f EXCEPT !.pc = "begin_value", !.i = f.i + 1],
                     EvaluateFrame(expressions[f.i + 1], f.env))
             /\ UNCHANGED exc
        ELSE IF expressions = <<>>
        THEN Raise(base, f, "IndexError")
        ELSE /\ Goto(base, [f EXCEPT !.pc = "start", !.i = 0,
                                     !.exp = expressions[Len(expressions)]])
             /\ UNCHANGED exc

EvalBegin ==
    /\ AtCase("begin")
    /\ BeginLoop(Below(1), [Top EXCEPT !.i = 0])
    /\ UNCHANGED <<envs, procs, script, source, tokens, line, out>>

BeginValue ==
    /\ Returned("evaluate", "begin_value")
    /\ BeginLoop(Below(2), Caller)
    /\ UNCHANGED <<envs, procs, script, source, tokens, line, out>>

\* case [op, *args] if op not in KEYWORDS: proc = evaluate(op, env) ...
EvalApplication ==
    /\ AtCase("application")
    /\ Call(Below(1), [Top EXCEPT !.pc = "app_op"],
            EvaluateFrame(Top.exp.items[1], Top.env))
    /\ UNCHANGED <<envs, procs, exc, script, source, tokens, line, out>>

\* ... values = [evaluate(arg, env) for arg in args] ...
ArgLoop(base, f) ==
    LET args == Tail(f.exp.items)
    IN  IF f.i < Len(args)
        THEN Call(base, [f EXCEPT !.pc = "app_arg", !.i = f.i + 1],
                  EvaluateFrame(args[f.i + 1], f.env))
        ELSE Goto(base, [f EXCEPT !.pc = "app_call"])

AppOp ==
    /\ Returned("evaluate", "app_op")
    /\ ArgLoop(Below(2), [Caller EXCEPT !.proc = Top.result, !.i = 0, !.vals = <<>>])
    /\ UNCHANGED <<envs, procs, exc, script, source, tokens, line, out>>

AppArg ==
    /\ Returned("evaluate", "app_arg")
    /\ ArgLoop(Below(2), [Caller EXCEPT !.vals = Append(@, Top.result)])
    /\ UNCHANGED <<envs, procs, exc, script, source, tokens, line, out>>

\* ... if TCO_ENABLED and isinstance(proc, Procedure):
\*     exp = ['begin', *proc.body]; env = proc.application_env(values)
\* and loop.  application_env is outside the try statement.
Trampoline ==
    /\ Running("evaluate", "app_call")
    /\ TCO_ENABLED /\ Top.proc.t = "proc"
    /\ LET p == procs[Top.proc.id]
           a == ApplicationEnv(envs, p, Top.vals)
       IN  IF a.ok
           THEN /\ envs' = a.h
                /\ Goto(Below(1), EvaluateFrame(L(<<Sym("begin")>> \o p.body), a.env))
                /\ UNCHANGED exc
           ELSE Raise(Below(1), Top, "TypeError") /\ UNCHANGED envs
    /\ UNCHANGED <<procs, script, source, tokens, line, out>>

\* A handler that lets the TypeError through as it is.
ExceptNothing(e) == e

\* except TypeError as exc: raise EvaluatorException(msg) from exc
ExceptTypeError(e) == IF e = "TypeError" THEN "EvaluatorException" ELSE e

\* ... else: try: return proc( *values)
\*           except TypeError as exc: raise EvaluatorException(msg) from exc
\* A Procedure is called through Procedure.__call__, which begins with
\* env = self.application_env(args).
CallProc ==
    /\ Running("evaluate", "app_call")
    /\ ~(TCO_ENABLED /\ Top.proc.t = "proc")
    /\ LET r == Invoke(Top.proc, Top.vals)
       IN  CASE r.k = "val" ->
                  Return(Below(1), Top, r.v) /\ UNCHANGED <<envs, exc>>
             [] r.k = "exc" ->
                  /\ Raise(Below(1), Top, ExceptTypeError(r.e))
                  /\ UNCHANGED envs
             [] r.k = "call" ->
                  LET p == procs[r.proc.id]
                      a == ApplicationEnv(envs, p, r.args)
                  IN  IF a.ok
                      THEN /\ envs' = a.h
                           /\ Call(Below(1), [Top EXCEPT !.pc = "try_call"],
                                   Frame("__call__", "loop", L(p.body), a.env, Unbound))
                           /\ UNCHANGED exc
                      ELSE /\ Raise(Below(1), Top, ExceptTypeError("TypeError"))
                           /\ UNCHANGED envs
    /\ UNCHANGED <<procs, script, source, tokens, line, out>>

\* case _: raise InvalidSyntax(lispstr(exp))
EvalInvalid ==
    /\ AtCase("invalid")
    /\ Raise(Below(1), Top, "InvalidSyntax")
    /\ UNCHANGED <<envs, procs, script, source, tokens, line, out>>

----------------------------------------------------------------------------
(* Procedure.__call__: for exp in self.body: result = evaluate(exp, env);  *)
(* return result                                                           *)

CallBody ==
    /\ Running("__call__", "loop")
    /\ LET body == Top.exp.items
       IN  IF Top.i < Len(body)
           THEN /\ Call(Below(1), [Top EXCEPT !.pc = "value", !.i = Top.i + 1],
                        EvaluateFrame(body[Top.i + 1], Top.env))
                /\ UNCHANGED exc
           ELSE IF Top.result = Unbound
           THEN Raise(Below(1), Top, "UnboundLocalError")
           ELSE Return(Below(1), Top, Top.result) /\ UNCHANGED exc
    /\ UNCHANGED <<envs, procs, script, source, tokens, line, out>>

CallValue ==
    /\ Returned("__call__", "value")
    /\ Goto(Below(2), [Caller EXCEPT !.pc = "loop", !.result = Top.result])
    /\ UNCHANGED <<envs, procs, exc, script, source, tokens, line, out>>

----------------------------------------------------------------------------
(* cond_form: i clauses have been taken from `clauses`, j expressions from *)
(* the body of clause i.                                                   *)

\* for clause in clauses: match clause:
\*     case ['else', *body]: ...
\*     case [test, *body] if evaluate(test, env): ...
\* A clause that matches neither pattern is passed over; after the last
\* clause the function returns None.
CondClause ==
    /\ Running("cond_form", "loop")
    /\ LET clauses == Top.exp.items
           clause == clauses[Top.i + 1]
           next == [Top EXCEPT !.i = Top.i + 1, !.j = 0]
       IN  IF Top.i = Len(clauses) THEN Return(Below(1), Top, None)
           ELSE IF HeadIs(clause, "else")
           THEN Goto(Below(1), [next EXCEPT !.pc = "body"])
           ELSE IF IsList(clause) /\ Len(clause.items) >= 1
           THEN Call(Below(1), [next EXCEPT !.pc = "test"],
                     EvaluateFrame(clause.items[1], Top.env))
           ELSE Goto(Below(1), next)
    /\ UNCHANGED <<envs, procs, exc, script, source, tokens, line, out>>

\* A cond that takes the body of a clause whatever its test gives.
CondTestTakesAny ==
    /\ Returned("cond_form", "test")
    /\ Goto(Below(2), [Caller EXCEPT !.pc = "body"])
    /\ UNCHANGED <<envs, procs, exc, script, source, tokens, line, out>>

CondTest ==
    /\ Returned("cond_form", "test")
    /\ Goto(Below(2), [Caller EXCEPT
            !.pc = IF Truthy(Top.result) THEN "body" ELSE "loop"])
    /\ UNCHANGED <<envs, procs, exc, script, source, tokens, line, out>>

\* for exp in body: result = evaluate(exp, env)
\* return result: of an empty body, an unassigned local.
CondBody ==
    /\ Running("cond_form", "body")
    /\ LET body == Tail(Top.exp.items[Top.i].items)
       IN  IF Top.j < Len(body)
           THEN /\ Call(Below(1), [Top EXCEPT !.pc = "body_value", !.j = Top.j + 1],
                        EvaluateFrame(body[Top.j + 1], Top.env))
                /\ UNCHANGED exc
           ELSE IF Top.result = Unbound
           THEN Raise(Below(1), Top, "UnboundLocalError")
           ELSE Return(Below(1), Top, Top.result) /\ UNCHANGED exc
    /\ UNCHANGED <<envs, procs, script, source, tokens, line, out>>

CondBodyValue ==
    /\ Returned("cond_form", "body_value")
    /\ Goto(Below(2), [Caller EXCEPT !.pc = "body", !.result = Top.result])
    /\ UNCHANGED <<envs, procs, exc, script, source, tokens, line, out>>

----------------------------------------------------------------------------
(* or_form and and_form: i expressions have been taken, result is `value`. *)

\* for exp in expressions: value = evaluate(exp, env) ...; return value
OrNext ==
    /\ Running("or_form", "loop")
    /\ LET expressions == Top.exp.items
       IN  IF Top.i < Len(expressions)
           THEN Call(Below(1), [Top EXCEPT !.pc = "value", !.i = Top.i + 1],
                     EvaluateFrame(expressions[Top.i + 1], Top.env))
           ELSE Return(Below(1), Top, Top.result)
    /\ UNCHANGED <<envs, procs, exc, script, source, tokens, line, out>>

\* An or that goes on to the next expression whatever the value is.
OrValueGoesOn ==
    /\ Returned("or_form", "value")
    /\ Goto(Below(2), [Caller EXCEPT !.pc = "loop", !.result = Top.result])
    /\ UNCHANGED <<envs, procs, exc, script, source, tokens, line, out>>

\* ... if value: return value
OrValue ==
    /\ Returned("or_form", "value")
    /\ IF Truthy(Top.result)
       THEN Return(Below(2), Caller, Top.result)
       ELSE Goto(Below(2), [Caller EXCEPT !.pc = "loop", !.result = Top.result])
    /\ UNCHANGED <<envs, procs, exc, script, source, tokens, line, out>>

AndNext ==
    /\ Running("and_form", "loop")
    /\ LET expressions == Top.exp.items
       IN  IF Top.i < Len(expressions)
           THEN Call(Below(1), [Top EXCEPT !.pc = "value", !.i = Top.i + 1],
                     EvaluateFrame(expressions[Top.i + 1], Top.env))
           ELSE Return(Below(1), Top, Top.result)
    /\ UNCHANGED <<envs, procs, exc, script, source, tokens, line, out>>

\* An and that returns whether its value is truthy, not the value.
AndValueCoerced ==
    /\ Returned("and_form", "value")
    /\ IF ~Truthy(Top.result)
       THEN Return(Below(2), Caller, Bool(FALSE))
       ELSE Goto(Below(2), [Caller EXCEPT !.pc = "loop", !.result = Bool(TRUE)])
    /\ UNCHANGED <<envs, procs, exc, script, source, tokens, line, out>>

\* ... if not value: return value
AndValue ==
    /\ Returned("and_form", "value")
    /\ IF ~Truthy(Top.result)
       THEN Return(Below(2), Caller, Top.result)
       ELSE Goto(Below(2), [Caller EXCEPT !.pc = "loop", !.result = Top.result])
    /\ UNCHANGED <<envs, procs, exc, script, source, tokens, line, out>>

----------------------------------------------------------------------------
(* Exceptions.  The only handler on the stack is the try statement around  *)
(* proc( *values); nothing in repl catches, so an exception that leaves the *)
(* outermost evaluate ends the program.                                    *)

InTry(f) == f.fn = "evaluate" /\ f.pc = "try_call"

\* The exception is dropped and the invocation returns None.
PropagateSwallowed ==
    /\ exc # NoExc /\ stack # <<>>
    /\ exc' = NoExc
    /\ stack' = Append(Below(1), [Top EXCEPT !.pc = "done", !.result = None])
    /\ UNCHANGED <<envs, procs, script, source, tokens, line, out>>

\* The innermost invocation is left and the exception reaches its caller.
Propagate ==
    /\ exc # NoExc /\ stack # <<>>
    /\ ~(Len(stack) >= 2 /\ InTry(Caller) /\ exc = "TypeError")
    /\ stack' = Below(1)
    /\ UNCHANGED <<envs, procs, exc, script, source, tokens, line, out>>

\* except TypeError as exc: raise EvaluatorException(msg) from exc
CatchTypeError ==
    /\ exc = "TypeError" /\ Len(stack) >= 2 /\ InTry(Caller)
    /\ Raise(Below(2), Caller, ExceptTypeError(exc))
    /\ UNCHANGED <<envs, procs, script, source, tokens, line, out>>

----------------------------------------------------------------------------
(* repl: val = evaluate(parse(input(prompt)), global_env);                 *)
(*       if val is not None: print(lispstr(val))                           *)

ReplRead ==
    /\ exc = NoExc /\ stack = <<>>
    /\ line < Len(script)
    /\ line' = line + 1
    /\ stack' = <<EvaluateFrame(script[line + 1], 1)>>
    /\ UNCHANGED <<envs, procs, exc, script, source, tokens, out>>

ReplPrint ==
    /\ exc = NoExc /\ Len(stack) = 1 /\ Top.pc = "done"
    /\ out' = IF Top.result # None THEN Append(out, lispstr(Top.result)) ELSE out
    /\ stack' = <<>>
    /\ UNCHANGED <<envs, procs, exc, script, source, tokens, line>>

----------------------------------------------------------------------------
(* parse, tokenize and read_from_tokens.  A text and a token are strings;  *)
(* the token list is the one list object every invocation of               *)
(* read_from_tokens pops from.                                             *)

\* The characters of the texts given to parse.  No token over them that
\* int() rejects is accepted by float(), which needs a point, an exponent
\* or one of the words inf and nan.
Alphabet == {"(", ")", " ", "a", "-", "0", "1"}
DigitChars == {"0", "1", "2", "3", "4", "5", "6", "7", "8", "9"}

CharAt(s, k) == SubSeq(s, k, k)

\* s.replace('(', ' ( ').replace(')', ' ) ')
RECURSIVE Spaced(_)
Spaced(s) ==
    IF s = "" THEN ""
    ELSE LET c == CharAt(s, 1) IN
         (IF c \in {"(", ")"} THEN " " \o c \o " " ELSE c) \o Spaced(Tail(s))

\* str.split(): the maximal runs of characters that are not whitespace.
RECURSIVE SplitFrom(_, _, _)
SplitFrom(s, word, words) ==
    LET closed == IF word = "" THEN words ELSE Append(words, word) IN
    IF s = "" THEN closed
    ELSE IF CharAt(s, 1) = " " THEN SplitFrom(Tail(s), "", closed)
    ELSE SplitFrom(Tail(s), word \o CharAt(s, 1), words)
Split(s) == SplitFrom(s, "", <<>>)

tokenize(s) == Split(Spaced(s))

\* int(token) succeeds: an optional sign, then one or more digits.
Unsigned(token) ==
    IF token # "" /\ CharAt(token, 1) \in {"-", "+"} THEN Tail(token) ELSE token
IsIntToken(token) ==
    /\ Unsigned(token) # ""
    /\ \A k \in 1..Len(Unsigned(token)) : CharAt(Unsigned(token), k) \in DigitChars
DigitValue(c) == CHOOSE d \in 0..9 : Digit[d + 1] = c
RECURSIVE NatOf(_)
NatOf(digits) ==
    IF digits = "" THEN 0
    ELSE 10 * NatOf(SubSeq(digits, 1, Len(digits) - 1))
         + DigitValue(CharAt(digits, Len(digits)))
IntOf(token) ==
    IF CharAt(token, 1) = "-" THEN 0 - NatOf(Unsigned(token))
    ELSE NatOf(Unsigned(token))

\* An atom reader that loses the sign of a number.
ParseAtomUnsigned(token) ==
    IF IsIntToken(token) THEN Num(NatOf(Unsigned(token))) ELSE Sym(token)

parse_atom(token) ==
    IF IsIntToken(token) THEN Num(IntOf(token)) ELSE Sym(token)

ParseFrame == Frame("parse", "read", Unbound, 0, Unbound)
ReadFrame == Frame("read_from_tokens", "start", Unbound, 0, Unbound)

\* parse(source): tokenize, then read_from_tokens(tokens)
Parse ==
    /\ exc = NoExc /\ stack = <<>> /\ line = 0
    /\ line' = 1
    /\ tokens' = tokenize(source)
    /\ stack' = <<ParseFrame, ReadFrame>>
    /\ UNCHANGED <<envs, procs, exc, script, out, source>>

\* if len(tokens) == 0: raise UnexpectedEndOfSource()
ReadEmpty ==
    /\ Running("read_from_tokens", "start")
    /\ Len(tokens) = 0
    /\ Raise(Below(1), Top, "UnexpectedEndOfSource")
    /\ UNCHANGED <<envs, procs, script, line, out, source, tokens>>

\* token = tokens.pop(0); if '(' == token: exp = []
ReadOpen ==
    /\ Running("read_from_tokens", "start")
    /\ Len(tokens) # 0 /\ Head(tokens) = "("
    /\ tokens' = Tail(tokens)
    /\ Goto(Below(1), [Top EXCEPT !.pc = "while", !.exp = L(<<>>)])
    /\ UNCHANGED <<envs, procs, exc, script, line, out, source>>

\* A reader that takes ')' for an atom.
ReadCloseAsAtom ==
    /\ Running("read_from_tokens", "start")
    /\ Len(tokens) # 0 /\ Head(tokens) = ")"
    /\ tokens' = Tail(tokens)
    /\ Return(Below(1), Top, Sym(Head(tokens)))
    /\ UNCHANGED <<envs, procs, exc, script, line, out, source>>

\* token = tokens.pop(0); elif ')' == token: raise UnexpectedCloseParen()
ReadClose ==
    /\ Running("read_from_tokens", "start")
    /\ Len(tokens) # 0 /\ Head(tokens) = ")"
    /\ tokens' = Tail(tokens)
    /\ Raise(Below(1), Top, "UnexpectedCloseParen")
    /\ UNCHANGED <<envs, procs, script, line, out, source>>

\* token = tokens.pop(0); else: return parse_atom(token)
ReadAtom ==
    /\ Running("read_from_tokens", "start")
    /\ Len(tokens) # 0 /\ Head(tokens) \notin {"(", ")"}
    /\ tokens' = Tail(tokens)
    /\ Return(Below(1), Top, parse_atom(Head(tokens)))
    /\ UNCHANGED <<envs, procs, exc, script, line, out, source>>

\* while tokens and tokens[0] != ')': read_from_tokens(tokens)
ReadWhile ==
    /\ Running("read_from_tokens", "while")
    /\ Len(tokens) # 0 /\ Head(tokens) # ")"
    /\ Call(Below(1), [Top EXCEPT !.pc = "append"], ReadFrame)
    /\ UNCHANGED <<envs, procs, exc, script, line, out, source, tokens>>

\* exp.append( the expression read )
ReadAppend ==
    /\ Returned("read_from_tokens", "append")
    /\ Goto(Below(2), [Caller EXCEPT !.pc = "while",
                                     !.exp = L(Append(Caller.exp.items, Top.result))])
    /\ UNCHANGED <<envs, procs, exc, script, line, out, source, tokens>>

\* the loop has ended; if not tokens: raise UnexpectedEndOfSource()
ReadEndOfSource ==
    /\ Running("read_from_tokens", "while")
    /\ Len(tokens) = 0
    /\ Raise(Below(1), Top, "UnexpectedEndOfSource")
    /\ UNCHANGED <<envs, procs, script, line, out, source, tokens>>

\* the loop has ended; tokens.pop(0) discards ')'; return exp
ReadEndOfList ==
    /\ Running("read_from_tokens", "while")
    /\ Len(tokens) # 0 /\ Head(tokens) = ")"
    /\ tokens' = Tail(tokens)
    /\ Return(Below(1), Top, Top.exp)
    /\ UNCHANGED <<envs, procs, exc, script, line, out, source>>

\* parse returns what read_from_tokens returned
ParseReturn ==
    /\ Returned("parse", "read")
    /\ Return(Below(2), Caller, Top.result)
    /\ UNCHANGED <<envs, procs, exc, script, line, out, source, tokens>>

\* parse(lispstr(exp)) of the expression the first parse returned
ParseRendered ==
    /\ exc = NoExc /\ Len(stack) = 1 /\ line = 1
    /\ Top.fn = "parse" /\ Top.pc = "done"
    /\ line' = 2
    /\ tokens' = tokenize(lispstr(Top.result))
    /\ stack' = <<Top, ParseFrame, ReadFrame>>
    /\ UNCHANGED <<envs, procs, exc, script, out, source>>

----------------------------------------------------------------------------
(* The forms given to the REPL.  Each script is one session: the forms, in *)
(* order, that parse(input(prompt)) returns.                               *)

Quote(e) == L(<<Sym("quote"), e>>)
If(test, consequence, alternative) == L(<<Sym("if"), test, consequence, alternative>>)
Define(name, e) == L(<<Sym("define"), Sym(name), e>>)
SetBang(name, e) == L(<<Sym("set!"), Sym(name), e>>)
DefineProc(name, parms, body) == L(<<Sym("define"), L(<<Sym(name)>> \o parms)>> \o body)
Lambda(parms, body) == L(<<Sym("lambda"), L(parms)>> \o body)
Cond(clauses) == L(<<Sym("cond")>> \o clauses)
Or(expressions) == L(<<Sym("or")>> \o expressions)
And(expressions) == L(<<Sym("and")>> \o expressions)
Begin(expressions) == L(<<Sym("begin")>> \o expressions)
App(op, args) == L(<<Sym(op)>> \o args)
\* (set! x (+ x n))
Bump(n) == SetBang("x", App("+", <<Sym("x"), Num(n)>>))

RECURSIVE SeqsOfLen(_, _)
SeqsOfLen(S, k) ==
    IF k = 0 THEN {<<>>}
    ELSE {Append(q, e) : q \in SeqsOfLen(S, k - 1), e \in S}
SeqsUpTo(S, n) == UNION {SeqsOfLen(S, k) : k \in 0..n}

MaxDepth == 3
MaxN == 3
MaxOperands == 2
MaxClauses == 2

\* Procedures nested d deep, each defined in the application frame of the one
\* around it; level k (0 is the top level) defines x when k is in B, and
\* the innermost level assigns, reads or defines x.
ScopeActs == {"set!", "lookup", "define"}
RECURSIVE LevelForms(_, _, _, _)
LevelForms(k, d, B, act) ==
    (IF k \in B THEN <<Define("x", Num(k))>> ELSE <<>>) \o
    (IF k = d
     THEN <<CASE act = "set!" -> SetBang("x", Num(9))
              [] act = "lookup" -> Sym("x")
              [] act = "define" -> Define("x", Num(9)),
            Sym("x")>>
     ELSE <<DefineProc("f", <<>>, LevelForms(k + 1, d, B, act)),
            App("f", <<>>),
            Sym("x")>>)
ScopeScripts ==
    {LevelForms(0, d, B, act) :
        d \in 0..MaxDepth, B \in SUBSET (0..MaxDepth), act \in ScopeActs}


\* (define x 5), (set! x 6), x
DefineSetScript == <<Define("x", Num(5)), SetBang("x", Num(6)), Sym("x")>>

\* Closures: a free variable of a procedure body, looked up when the
\* procedure is applied from an environment that binds the same name, and
\* after the defining environment was changed.
\* (define y 1) (define (f) y) (define (g y) (f)) (g 2) (set! y 5) (g 2)
\* (define y 7) (g 2)
LexicalScript ==
    <<Define("y", Num(1)),
      DefineProc("f", <<>>, <<Sym("y")>>),
      DefineProc("g", <<Sym("y")>>, <<App("f", <<>>)>>),
      App("g", <<Num(2)>>),
      SetBang("y", Num(5)),
      App("g", <<Num(2)>>),
      Define("y", Num(7)),
      App("g", <<Num(2)>>)>>
\* (define (h) z) (define z 3) (h) (define (k z) (define w 4) (h)) (k 8) w
LateBindingScript ==
    <<DefineProc("h", <<>>, <<Sym("z")>>),
      Define("z", Num(3)),
      App("h", <<>>),
      DefineProc("k", <<Sym("z")>>, <<Define("w", Num(4)), App("h", <<>>)>>),
      App("k", <<Num(8)>>),
      Sym("w")>>
\* (define (make-adder n) (lambda (k) (+ k n))) (define n 100)
\* ((make-adder 3) 4) (define add4 (make-adder 4)) (add4 4)
MakeAdderScript ==
    <<DefineProc("make-adder", <<Sym("n")>>,
                 <<Lambda(<<Sym("k")>>, <<App("+", <<Sym("k"), Sym("n")>>)>>)>>),
      Define("n", Num(100)),
      L(<<App("make-adder", <<Num(3)>>), Num(4)>>),
      Define("add4", App("make-adder", <<Num(4)>>)),
      App("add4", <<Num(4)>>)>>
ClosureScripts == {LexicalScript, LateBindingScript, MakeAdderScript}

\* (define (loop n) (if (= n 0) 'done (loop (- n 1)))) and (loop n)
LoopScript(n) ==
    <<DefineProc("loop", <<Sym("n")>>,
        <<If(App("=", <<Sym("n"), Num(0)>>),
             Quote(Sym("done")),
             App("loop", <<App("-", <<Sym("n"), Num(1)>>)>>))>>),
      App("loop", <<Num(n)>>)>>

\* The same count with the recursive call as an operand, not a tail call:
\* (define (count n) (if (= n 0) 0 (+ 1 (count (- n 1))))) and (count n)
CountScript(n) ==
    <<DefineProc("count", <<Sym("n")>>,
        <<If(App("=", <<Sym("n"), Num(0)>>),
             Num(0),
             App("+", <<Num(1), App("count", <<App("-", <<Sym("n"), Num(1)>>)>>)>>))>>),
      App("count", <<Num(n)>>)>>

\* A loop whose tail call is the last expression of a begin.
BeginLoopScript(n) ==
    <<Define("x", Num(0)),
      DefineProc("walk", <<Sym("n")>>,
        <<If(App("=", <<Sym("n"), Num(0)>>),
             Sym("x"),
             Begin(<<Bump(1), App("walk", <<App("-", <<Sym("n"), Num(1)>>)>>)>>))>>),
      App("walk", <<Num(n)>>)>>

LoopScripts ==
    {LoopScript(n) : n \in 0..MaxN} \cup {CountScript(n) : n \in 0..MaxN}
        \cup {BeginLoopScript(n) : n \in 0..MaxN}

\* (or e1 ... ek) and (and e1 ... ek): operands that are falsy, truthy,
\* that change x, and that fail.
Operands == {
    Num(0), Num(2), Quote(L(<<>>)),
    Bump(10),
    Begin(<<Bump(1), Sym("x")>>),
    Sym("u") }
LogicScripts ==
    {<<Define("x", Num(0)), Or(ops), Sym("x")>> : ops \in SeqsUpTo(Operands, MaxOperands)}
    \cup
    {<<Define("x", Num(0)), And(ops), Sym("x")>> : ops \in SeqsUpTo(Operands, MaxOperands)}

\* (cond clause...): tests that are falsy, truthy and else, with and
\* without an effect on x, and bodies of one and two expressions.
ClauseFalse == L(<<Num(0), Bump(1), Quote(Sym("a"))>>)
ClauseTrue == L(<<Num(1), Quote(Sym("b"))>>)
ClauseElse == L(<<Sym("else"), Bump(10), Sym("x")>>)
ClauseFalseBump == L(<<Begin(<<Bump(100), Num(0)>>), Bump(1), Quote(Sym("c"))>>)
ClauseTrueBump == L(<<Begin(<<Bump(100), Sym("x")>>), Bump(1000), Num(0)>>)
Clauses == {ClauseFalse, ClauseTrue, ClauseElse, ClauseFalseBump, ClauseTrueBump}
CondScripts ==
    {<<Define("x", Num(0)), Cond(cs), Sym("x")>> : cs \in SeqsUpTo(Clauses, MaxClauses)}

\* Lists that match no rule of the language, after a define.
Malformed == {
    L(<<>>),
    L(<<Sym("if"), Num(1), Num(2)>>),
    L(<<Sym("if")>>),
    L(<<Sym("quote")>>),
    L(<<Sym("quote"), Num(1), Num(2)>>),
    L(<<Sym("define"), Num(1), Num(2)>>),
    L(<<Sym("define"), Sym("x")>>),
    L(<<Sym("define"), L(<<Sym("f")>>)>>),
    L(<<Sym("define"), L(<<>>), Num(1)>>),
    L(<<Sym("set!"), Sym("x")>>),
    L(<<Sym("set!"), Num(1), Num(2)>>),
    L(<<Sym("lambda"), L(<<Sym("x")>>)>>),
    L(<<Sym("lambda"), Sym("x"), Num(1)>>),
    L(<<Sym("lambda")>>),
    L(<<Sym("begin")>>),
    L(<<Sym("cond"), L(<<Num(1)>>)>>),
    L(<<Sym("cond"), L(<<Sym("else")>>)>>) }
SyntaxScripts ==
    {<<Define("x", Num(0)), m>> : m \in Malformed}
    \cup {<<Define("x", Num(0)), DefineProc("f", <<>>, <<Bump(1), m>>), App("f", <<>>)>> :
            m \in Malformed}

\* Applications of a value that is not a Procedure.
PrimForms == {
    App("+", <<Num(1), Num(2)>>),
    App("+", <<Num(1)>>),
    App("+", <<Num(1), Quote(Sym("a"))>>),
    App("+", <<Quote(Sym("a")), Quote(Sym("b"))>>),
    App("-", <<Quote(Sym("a")), Num(1)>>),
    App("-", <<Num(1), Num(2), Num(3)>>),
    App("=", <<Num(1)>>),
    App("=", <<App("list", <<Num(1)>>), App("list", <<App("=", <<Num(1), Num(1)>>)>>)>>),
    App("//", <<Num(7), Num(2)>>),
    App("//", <<Num(1), Num(0)>>),
    App("//", <<Num(1), Quote(L(<<>>))>>),
    App("//", <<Num(0 - 7), Num(0 - 2)>>),
    L(<<Num(1), Num(2)>>),
    L(<<Quote(Sym("a"))>>),
    L(<<Quote(L(<<>>)), Num(1)>>),
    L(<<Define("y", Num(1))>>),
    L(<<Sym("begin!"), Num(1)>>),
    L(<<Sym("'"), Num(1), Num(2)>>),
    App("list", <<>>),
    App("apply", <<Sym("+"), Num(1)>>),
    App("apply", <<Sym("+"), App("list", <<Num(1), Num(2)>>)>>),
    App("apply", <<Sym("+")>>),
    App("apply", <<Num(1), App("list", <<>>)>>),
    App("apply", <<Sym("//"), App("list", <<Num(1), Num(0)>>)>>),
    App("apply", <<Sym("begin"), App("list", <<>>)>>),
    App("apply", <<Sym("apply"), App("list", <<Sym("list"), App("list", <<Num(1)>>)>>)>>) }
PrimScripts == {<<Define("x", Num(0)), f, Sym("x")>> : f \in PrimForms}

\* Procedures called by the primitive apply, through Procedure.__call__.
ApplyScripts == {
    <<DefineProc("f", <<Sym("a"), Sym("b")>>, <<Define("c", Sym("a")), Sym("c")>>),
      App("apply", <<Sym("f"), App("list", <<Num(1), Num(2)>>)>>),
      App("apply", <<Sym("f"), App("list", <<Num(1)>>)>>),
      App("apply", <<Sym("f"), App("list", <<>>)>>)>>,
    <<DefineProc("f", <<>>, <<L(<<Lambda(<<L(<<Sym("a")>>)>>, <<Num(1)>>), Num(2)>>)>>),
      App("apply", <<Sym("f"), App("list", <<>>)>>)>>,
    <<DefineProc("f", <<>>, <<L(<<Lambda(<<L(<<Sym("a")>>)>>, <<Num(1)>>), Num(2)>>)>>),
      App("f", <<>>)>>,
    <<App("apply", <<Lambda(<<L(<<Sym("a")>>)>>, <<Num(1)>>), App("list", <<Num(2)>>)>>)>>,
    <<L(<<Lambda(<<L(<<Sym("a")>>)>>, <<Num(1)>>), Num(2)>>)>>,
    <<L(<<Lambda(<<Num(1), Sym("a"), Sym("a")>>, <<Sym("a")>>), Num(2), Num(3), Num(4), Num(5)>>)>>,
    <<DefineProc("f", <<Sym("a")>>, <<App("//", <<Num(1), Sym("a")>>)>>),
      App("apply", <<Sym("f"), App("list", <<Num(0)>>)>>)>> }

\* (define (make-counter n) (lambda () (set! n (+ n 1)) n))
\* (define c1 (make-counter 0)) (define c2 (make-counter 10))
\* (c1) (c1) (c2) (apply c1 (list))
CounterScript ==
    <<DefineProc("make-counter", <<Sym("n")>>,
                 <<Lambda(<<>>, <<SetBang("n", App("+", <<Sym("n"), Num(1)>>)), Sym("n")>>)>>),
      Define("c1", App("make-counter", <<Num(0)>>)),
      Define("c2", App("make-counter", <<Num(10)>>)),
      App("c1", <<>>), App("c1", <<>>), App("c2", <<>>),
      App("apply", <<Sym("c1"), App("list", <<>>)>>)>>
\* (define (make-adder n) (lambda (k) (+ k n)))
\* (define add3 (make-adder 3)) (define add4 (make-adder 4))
\* (add3 1) (add4 1) (add3 1)
AddersScript ==
    <<DefineProc("make-adder", <<Sym("n")>>,
                 <<Lambda(<<Sym("k")>>, <<App("+", <<Sym("k"), Sym("n")>>)>>)>>),
      Define("add3", App("make-adder", <<Num(3)>>)),
      Define("add4", App("make-adder", <<Num(4)>>)),
      App("add3", <<Num(1)>>), App("add4", <<Num(1)>>), App("add3", <<Num(1)>>)>>
\* (define (sum n) (if (= n 0) 0 (+ (sum (- n 1)) n))) (sum 3)
SumScript ==
    <<DefineProc("sum", <<Sym("n")>>,
        <<If(App("=", <<Sym("n"), Num(0)>>), Num(0),
             App("+", <<App("sum", <<App("-", <<Sym("n"), Num(1)>>)>>), Sym("n")>>))>>),
      App("sum", <<Num(3)>>),
      App("apply", <<Sym("sum"), App("list", <<Num(2)>>)>>)>>
\* (define (f a) (define a (+ a 1)) a) (f 1) (f 1) (apply f (list 5)) (f 1)
RebindScript ==
    <<DefineProc("f", <<Sym("a")>>, <<Define("a", App("+", <<Sym("a"), Num(1)>>)), Sym("a")>>),
      App("f", <<Num(1)>>), App("f", <<Num(1)>>),
      App("apply", <<Sym("f"), App("list", <<Num(5)>>)>>),
      App("f", <<Num(1)>>)>>
FrameScripts == {CounterScript, AddersScript, SumScript, RebindScript}

\* A procedure of p parameters applied to k arguments, the values 1..k,
\* by the trampoline or through apply; its body is a reference to its r-th
\* parameter, or 0 when r = 0.  The name b is bound globally, the other
\* parameter names are not.
MaxParms == 2
ParmNames == <<"a", "b", "c", "d", "e">>
ArityScript(p, k, r, direct) ==
    LET parms == [n \in 1..p |-> Sym(ParmNames[n])]
        args == [n \in 1..k |-> Num(n)]
        body == IF r = 0 THEN Num(0) ELSE Sym(ParmNames[r])
    IN  <<Define("b", Num(9)),
          DefineProc("f", parms, <<body>>),
          IF direct THEN App("apply", <<Sym("f"), App("list", args)>>)
          ELSE App("f", args)>>
ArityScripts ==
    {ArityScript(p, k, r, direct) :
        p \in 0..MaxParms, k \in 0..(MaxParms + 1), r \in 0..MaxParms, direct \in BOOLEAN}

\* One top-level form that changes x, then fails, with more to do after the
\* failure: (begin (set! x (+ x 1)) FAILING (set! x (+ x 1))) where FAILING
\* is a define or set! whose value fails, an application with a failing
\* argument, a cond with a failing test, and a procedure applied through
\* apply whose body fails.
Failing == {
    Define("y", Sym("nope")),
    SetBang("x", App("//", <<Num(1), Num(0)>>)),
    Define("y", App("+", <<Num(1), Quote(Sym("a"))>>)),
    App("list", <<Bump(1), Sym("nope"), Bump(1)>>),
    Cond(<<L(<<Sym("nope"), Bump(1)>>), L(<<Sym("else"), Bump(1)>>)>>),
    Or(<<Num(0), L(<<Sym("if"), Num(1)>>), Bump(1)>>),
    App("apply", <<Lambda(<<>>, <<Bump(1), Sym("nope"), Bump(1)>>), App("list", <<>>)>>),
    App("apply", <<Lambda(<<>>, <<L(<<Lambda(<<L(<<Sym("a")>>)>>, <<Num(1)>>), Num(2)>>)>>),
                   App("list", <<>>)>>) }
AbortScript(f) ==
    <<Define("x", Num(0)), Begin(<<Bump(1), f, Bump(1)>>), Sym("x")>>
AbortScripts == {AbortScript(f) : f \in Failing}

\* Forms whose head is a keyword, of the shape of its rule and not, given
\* after the keyword's name was bound to the primitive list.
KeywordForms == {
    Quote(Sym("a")), L(<<Sym("quote")>>),
    If(Num(0), Num(1), Num(2)), L(<<Sym("if"), Num(1), Num(2)>>),
    Define("y", Num(1)), L(<<Sym("define"), Num(1), Num(2)>>),
    DefineProc("g", <<>>, <<Num(1)>>), L(<<Sym("define"), L(<<Sym("g")>>)>>),
    Lambda(<<Sym("a")>>, <<Sym("a")>>), L(<<Sym("lambda"), L(<<Sym("a")>>)>>),
    SetBang("x", Num(1)), L(<<Sym("set!"), Sym("x")>>),
    Cond(<<L(<<Num(0), Num(1)>>), L(<<Sym("else"), Num(2)>>)>>),
    Or(<<Num(0), Num(3)>>), And(<<Num(1), Num(0)>>),
    Begin(<<Num(1), Num(2)>>) }
KeywordScripts ==
    {<<Define("x", Num(0)), Define(f.items[1].s, Sym("list")), f, Sym(f.items[1].s)>> :
        f \in KeywordForms}
    \cup {<<DefineProc("f", <<f.items[1]>>, <<f>>), App("f", <<Sym("list")>>)>> :
            f \in KeywordForms}

Scripts ==
    {DefineSetScript} \cup ScopeScripts \cup ClosureScripts \cup LoopScripts \cup LogicScripts
        \cup CondScripts \cup SyntaxScripts \cup PrimScripts \cup ApplyScripts
        \cup KeywordScripts \cup FrameScripts \cup ArityScripts \cup AbortScripts

----------------------------------------------------------------------------

Init ==
    /\ envs = <<standard_env>>
    /\ procs = <<>>
    /\ stack = <<>>
    /\ exc = NoExc
    /\ script \in Scripts
    /\ line = 0
    /\ out = <<>>
    /\ source = ""
    /\ tokens = <<>>

Next ==
    \/ ReplRead \/ ReplPrint
    \/ EvalNumber \/ EvalSymbol \/ EvalQuote
    \/ EvalIf \/ IfBranch
    \/ EvalDefine \/ DefineBind
    \/ EvalSet \/ SetChange
    \/ EvalDefineProc \/ EvalLambda
    \/ EvalCond \/ EvalOr \/ EvalAnd \/ ReturnCall
    \/ EvalBegin \/ BeginValue
    \/ EvalApplication \/ AppOp \/ AppArg \/ Trampoline \/ CallProc
    \/ EvalInvalid
    \/ CallBody \/ CallValue
    \/ CondClause \/ CondTest \/ CondBody \/ CondBodyValue
    \/ OrNext \/ OrValue \/ AndNext \/ AndValue
    \/ Propagate \/ CatchTypeError

Spec == Init /\ [][Next]_vars

\* The interpreter is one thread that takes its next step whenever it has one.
FairSpec == Spec /\ WF_vars(Next)

\* The texts given to parse: every string over Alphabet of up to MaxText
\* characters, and some longer ones with nested lists, several elements,
\* extra blanks, integers written in other ways and unbalanced parentheses.
MaxText == 4
RECURSIVE TextsUpTo(_)
TextsUpTo(n) ==
    IF n = 0 THEN {""}
    ELSE TextsUpTo(n - 1) \cup {t \o c : t \in TextsUpTo(n - 1), c \in Alphabet}
LongTexts == {
    "(a 1)", "((a))", "(a (1 0))", "( a  -1 )", "(a(1)a)", "(- 10 1)",
    "(() ())", "((a) (1 (0)))", "(a 01)", "(a -0)", "(a --1)", "(a 1-)",
    "(a 1))", "(a 1) a", "10 (a)", "((a) 1", "(a (1)", "(a ((1)" }
Texts == TextsUpTo(MaxText) \cup LongTexts

\* parse on its own: one text, parsed, and its rendering parsed again.
ParseInit ==
    /\ envs = <<standard_env>>
    /\ procs = <<>>
    /\ stack = <<>>
    /\ exc = NoExc
    /\ script = <<>>
    /\ line = 0
    /\ out = <<>>
    /\ source \in Texts
    /\ tokens = <<>>

ParseNext ==
    \/ Parse \/ ParseReturn \/ ParseRendered
    \/ ReadEmpty \/ ReadOpen \/ ReadClose \/ ReadAtom
    \/ ReadWhile \/ ReadAppend \/ ReadEndOfSource \/ ReadEndOfList
    \/ Propagate

ParseSpec == ParseInit /\ [][ParseNext]_vars

\* The session has ended: every form was evaluated and printed, or an
\* exception left repl.
Finished == stack = <<>> /\ (line = Len(script) \/ exc # NoExc)

----------------------------------------------------------------------------
(* Vocabulary of the properties *)

\* The frames of environment e, innermost first.
RECURSIVE Chain(_, _)
Chain(h, e) == IF e = 0 THEN <<>> ELSE <<e>> \o Chain(h, h[e].parent)

\* The innermost frame of e's chain that binds key; 0 when none does.
Binder(h, e, key) ==
    LET c == Chain(h, e)
        hits == {k \in 1..Len(c) : key \in DOMAIN h[c[k]].vars}
    IN  IF hits = {} THEN 0
        ELSE c[CHOOSE k \in hits : \A m \in hits : k <= m]

\* evaluate is about to run env.change(var, value) for (set! var value-exp).
AtSetChange == Returned("evaluate", "set_value")
SetVar == Caller.exp.items[2].s
SetBinder == Binder(envs, Caller.env, SetVar)

\* How many invocations of evaluate are active.
Depth == Cardinality({k \in 1..Len(stack) : stack[k].fn = "evaluate"})

----------------------------------------------------------------------------
(* C1: (set! name value-exp), with name bound somewhere in the chain,      *)
(* changes the value in the innermost frame that binds name and nothing    *)
(* else: no frame gains a key, every other binding stays as it was.        *)
C1_SetChangesNearestBinderOnly ==
    [][(AtSetChange /\ SetBinder # 0)
        => envs' = [envs EXCEPT ![SetBinder].vars[SetVar] = Top.result]]_vars

(* C2: (set! name value-exp) with name bound in no frame of the chain      *)
(* fails with UndefinedSymbol and leaves every frame as it was.            *)
C2_SetUnboundIsUndefinedSymbol ==
    [][(AtSetChange /\ SetBinder = 0)
        => (exc' = "UndefinedSymbol" /\ envs' = envs)]_vars

\* The innermost invocation is evaluate, which has just looked a Symbol up.
LookedUp ==
    /\ stack # <<>> /\ Top.fn = "evaluate"
    /\ Top.exp.t = "sym" /\ Top.pc \in {"done", "raised"}

(* C3: evaluating a Symbol gives the value held by the innermost frame of  *)
(* the chain that binds it, and fails with UndefinedSymbol exactly when no *)
(* frame binds it; after (define x 5) and (set! x 6), x is 6.              *)
C3_LookupFindsNearestBinding ==
    /\ LookedUp =>
         LET b == Binder(envs, Top.env, Top.exp.s)
         IN  IF b = 0
             THEN Top.pc = "raised" /\ exc = "UndefinedSymbol"
             ELSE /\ Top.pc = "done" /\ exc = NoExc
                  /\ Top.result = envs[b].vars[Top.exp.s]
    /\ (script = DefineSetScript /\ Finished) => (exc = NoExc /\ out = <<"6">>)

\* A Symbol was looked up inside a procedure after a set!, where an outer
\* frame binds it to another value than the frame that was found.
C3_Witness ==
    /\ LookedUp /\ Top.pc = "done"
    /\ Top.result = Num(9)
    /\ LET c == Chain(envs, Top.env)
       IN  \E k \in 2..Len(c) :
              /\ Top.exp.s \in DOMAIN envs[c[k]].vars
              /\ envs[c[k]].vars[Top.exp.s] # Top.result

\* evaluate is about to bind a name for one of the two define forms.
AtDefine == Returned("evaluate", "define_value") \/ AtCase("define_proc")
DefineEnv == IF AtCase("define_proc") THEN Top.env ELSE Caller.env
DefineName ==
    IF AtCase("define_proc") THEN Top.exp.items[2].items[1].s
    ELSE Caller.exp.items[2].s

(* C4: both define forms create or overwrite the binding of name in the    *)
(* innermost frame of the current environment and leave every other frame, *)
(* and every other binding of that frame, as they were.                    *)
C4_DefineBindsInnermostOnly ==
    [][AtDefine =>
        /\ Len(envs') = Len(envs)
        /\ \A k \in 1..Len(envs) : k # DefineEnv => envs'[k] = envs[k]
        /\ envs'[DefineEnv].parent = envs[DefineEnv].parent
        /\ DOMAIN envs'[DefineEnv].vars = DOMAIN envs[DefineEnv].vars \cup {DefineName}
        /\ \A n \in DOMAIN envs[DefineEnv].vars \ {DefineName} :
              envs'[DefineEnv].vars[n] = envs[DefineEnv].vars[n]
        /\ envs'[DefineEnv].vars[DefineName] =
              IF AtCase("define_proc") THEN ProcRef(Len(procs'))
              ELSE Top.result]_vars

\* A define inside a procedure body has bound a name that the procedure's
\* defining environment binds to another value.
C4_Witness ==
    /\ stack # <<>> /\ Top.fn = "evaluate" /\ Top.pc = "done"
    /\ Case(Top.exp) = "define"
    /\ envs[Top.env].parent # 0
    /\ LET name == Top.exp.items[2].s
           outer == Binder(envs, envs[Top.env].parent, name)
       IN  /\ outer # 0
           /\ envs[outer].vars[name] # envs[Top.env].vars[name]

\* evaluate is about to apply a Procedure: in the trampoline, or through
\* Procedure.__call__ when a primitive is given it.
AtApply ==
    /\ Running("evaluate", "app_call")
    /\ (Top.proc.t = "proc" \/ Invoke(Top.proc, Top.vals).k = "call")
AppliedProc ==
    IF Top.proc.t = "proc" THEN procs[Top.proc.id]
    ELSE procs[Invoke(Top.proc, Top.vals).proc.id]

(* C5: a Procedure's defining environment is the environment its lambda or *)
(* define form was evaluated in and never changes; an application puts one *)
(* new frame in front of the frames of the defining environment, whatever  *)
(* the calling environment is, and those frames are the shared ones, with  *)
(* their current bindings.                                                 *)
C5_ClosureKeepsDefiningEnvironment ==
    /\ [](Finished =>
            /\ script = LexicalScript => out = <<"1", "5", "7">>
            /\ script = LateBindingScript => out = <<"3", "3">> /\ exc = "UndefinedSymbol"
            /\ script = MakeAdderScript => out = <<"7", "8">>)
    /\ [][/\ Len(procs') >= Len(procs)
          /\ \A id \in 1..Len(procs) : procs'[id] = procs[id]
          /\ (AtCase("lambda") \/ AtCase("define_proc")) =>
                /\ Len(procs') = Len(procs) + 1
                /\ procs'[Len(procs')].env = Top.env
          /\ (AtApply /\ exc' = NoExc) =>
                /\ Len(envs') = Len(envs) + 1
                /\ stack'[Len(stack')].env = Len(envs')
                /\ Chain(envs', Len(envs')) =
                       <<Len(envs')>> \o Chain(envs, AppliedProc.env)
                /\ \A k \in 1..Len(envs) : envs'[k] = envs[k]]_vars

\* A procedure called from a frame that binds y = 2 has read the y of its
\* defining environment, as changed after the procedure was made.
C5_Witness ==
    /\ script = LexicalScript /\ out = <<"1", "5">>
    /\ LookedUp /\ Top.exp.s = "y" /\ Top.result = Num(7)
    /\ Top.env # 1
    /\ \E k \in 1..Len(envs) :
          "y" \in DOMAIN envs[k].vars /\ envs[k].vars["y"] = Num(2)

(* C6: with the trampoline, (loop n) for the self-tail-recursive loop ends *)
(* with the value done for every n, and no more than three invocations of  *)
(* evaluate are active at any time, whatever n is; with the tail call as    *)
(* the last expression of a begin, no more than four.                       *)
C6_TailCallsRunInConstantDepth ==
    /\ [](/\ script \in {LoopScript(n) : n \in 0..MaxN} => Depth <= 3
          /\ script \in {BeginLoopScript(n) : n \in 0..MaxN} => Depth <= 4)
    /\ (script \in {LoopScript(n) : n \in 0..MaxN})
          ~> (Finished /\ exc = NoExc /\ out = <<"done">>)
    /\ \A n \in 0..MaxN :
          (script = BeginLoopScript(n))
              ~> (Finished /\ exc = NoExc /\ out = <<NatStr(n)>>)

\* (loop MaxN) has ended with done after MaxN + 1 applications of loop.
C6_Witness ==
    /\ script = LoopScript(MaxN) /\ Finished /\ out = <<"done">>
    /\ Len(envs) = MaxN + 2
    /\ envs[Len(envs)].vars["n"] = Num(0)

----------------------------------------------------------------------------
\* What an operand of the logic scripts does when it is evaluated: how much
\* it adds to x, whether its value is truthy, whether it fails.
OperandEffect(op) ==
    CASE op = Num(0) -> [dx |-> 0, truthy |-> FALSE, fails |-> FALSE]
      [] op = Num(2) -> [dx |-> 0, truthy |-> TRUE, fails |-> FALSE]
      [] op = Quote(L(<<>>)) -> [dx |-> 0, truthy |-> FALSE, fails |-> FALSE]
      [] op = Bump(10) -> [dx |-> 10, truthy |-> FALSE, fails |-> FALSE]
      [] op = Begin(<<Bump(1), Sym("x")>>) -> [dx |-> 1, truthy |-> TRUE, fails |-> FALSE]
      [] op = Sym("u") -> [dx |-> 0, truthy |-> FALSE, fails |-> TRUE]

\* x and whether the form failed after the operands are evaluated from the
\* left up to the first one that fails or short-circuits.
RECURSIVE LogicOracle(_, _, _)
LogicOracle(ops, isOr, x) ==
    IF ops = <<>> THEN [x |-> x, fails |-> FALSE]
    ELSE LET e == OperandEffect(Head(ops))
         IN  IF e.fails THEN [x |-> x, fails |-> TRUE]
             ELSE IF e.truthy = isOr THEN [x |-> x + e.dx, fails |-> FALSE]
             ELSE LogicOracle(Tail(ops), isOr, x + e.dx)

LogicFns == {"or_form", "and_form"}
ShortCircuits(fn, v) == IF fn = "or_form" THEN Truthy(v) ELSE ~Truthy(v)

(* C7: or and and evaluate their operands from left to right, each at most *)
(* once, and evaluate none after an operand gave the short-circuiting      *)
(* value: no change of the environment and no error of a later operand.    *)
C7_LogicFormsShortCircuit ==
    /\ []((script \in LogicScripts /\ Finished) =>
            LET form == script[2]
                o == LogicOracle(Tail(form.items), HeadIs(form, "or"), 0)
            IN  /\ (exc # NoExc) = o.fails
                /\ envs[1].vars["x"] = Num(o.x))
    /\ [][/\ ( /\ exc = NoExc /\ stack # <<>>
               /\ Top.fn \in LogicFns /\ Top.pc = "loop"
               /\ Len(stack') > Len(stack) ) =>
                 /\ Top.i > 0 => ~ShortCircuits(Top.fn, Top.result)
                 /\ stack'[Len(stack')].exp = Top.exp.items[Top.i + 1]
                 /\ stack'[Len(stack)].i = Top.i + 1
          /\ ( /\ exc = NoExc /\ Len(stack) >= 2 /\ Top.pc = "done"
               /\ Caller.fn \in LogicFns
               /\ ShortCircuits(Caller.fn, Top.result) ) =>
                 stack' = Append(Below(2), [Caller EXCEPT !.pc = "done",
                                                         !.result = Top.result])
          /\ (stack # <<>> /\ Top.fn \in LogicFns /\ Top.pc = "done") =>
                 Len(stack') < Len(stack)]_vars

\* or has returned the value of its first operand; the second one, which
\* would change x or fail, was not evaluated.
C7_Witness ==
    /\ stack # <<>> /\ Top.fn = "or_form" /\ Top.pc = "done"
    /\ Top.i = 1 /\ Len(Top.exp.items) = 2
    /\ Top.exp.items[2] \in {Bump(10), Sym("u")}
    /\ Truthy(Top.result)
    /\ envs[1].vars["x"] = Num(0)

\* What a clause of the cond scripts does: what its test adds to x, whether
\* it matches, what its body adds to x and the text of the body's last value.
ClauseEffect(clause, x) ==
    CASE clause = ClauseFalse -> [tdx |-> 0, matches |-> FALSE, bdx |-> 0, text |-> ""]
      [] clause = ClauseTrue -> [tdx |-> 0, matches |-> TRUE, bdx |-> 0, text |-> "b"]
      [] clause = ClauseElse ->
            [tdx |-> 0, matches |-> TRUE, bdx |-> 10, text |-> NatStr(x + 10)]
      [] clause = ClauseFalseBump ->
            [tdx |-> 100, matches |-> FALSE, bdx |-> 0, text |-> ""]
      [] clause = ClauseTrueBump ->
            [tdx |-> 100, matches |-> TRUE, bdx |-> 1000, text |-> "0"]

\* x and what is printed after the tests are evaluated up to the first clause
\* that matches and the body of that clause, and of no other, is evaluated.
RECURSIVE CondOracle(_, _)
CondOracle(clauses, x) ==
    IF clauses = <<>> THEN [x |-> x, printed |-> <<>>]
    ELSE LET e == ClauseEffect(Head(clauses), x)
         IN  IF e.matches
             THEN [x |-> x + e.tdx + e.bdx, printed |-> <<e.text>>]
             ELSE CondOracle(Tail(clauses), x + e.tdx)

(* C8: cond evaluates the tests of its clauses in order up to the first    *)
(* clause that matches and of none after it, evaluates the body of that    *)
(* clause in order and returns the value of its last expression; when no   *)
(* clause matches it evaluates no body and returns no value.               *)
C8_CondTakesFirstMatchingClause ==
    (script \in CondScripts /\ Finished) =>
        LET o == CondOracle(Tail(script[2].items), 0)
        IN  /\ exc = NoExc
            /\ envs[1].vars["x"] = Num(o.x)
            /\ out = o.printed \o <<NatStr(o.x)>>

\* cond has returned from its first clause, an else with a body of two
\* expressions; the test of the clause after it, which would add 100 to x,
\* was not evaluated.
C8_Witness ==
    /\ stack # <<>> /\ Top.fn = "cond_form" /\ Top.pc = "done"
    /\ Top.exp.items = <<ClauseElse, ClauseTrueBump>>
    /\ Top.i = 1 /\ Top.j = 2
    /\ Top.result = Num(10)
    /\ envs[1].vars["x"] = Num(10)

----------------------------------------------------------------------------
\* The shape the language's rule asks of a list whose head is keyword k.
RuleShape(k, e) ==
    CASE k = "quote" -> Len(e.items) = 2
      [] k = "if" -> Len(e.items) = 4
      [] k = "define" ->
            \/ Len(e.items) = 3 /\ IsSymbol(e.items[2])
            \/ /\ Len(e.items) >= 3 /\ IsList(e.items[2])
               /\ Len(e.items[2].items) >= 1 /\ IsSymbol(e.items[2].items[1])
      [] k = "set!" -> Len(e.items) = 3 /\ IsSymbol(e.items[2])
      [] k = "lambda" -> Len(e.items) >= 3 /\ IsList(e.items[2])
      [] k \in {"cond", "or", "and"} -> TRUE
      [] k = "begin" -> Len(e.items) >= 2

\* The list is empty, or its head is a reserved keyword and its shape is not
\* the one the keyword's rule asks for.
MatchesNoRule(e) ==
    /\ IsList(e)
    /\ \/ e.items = <<>>
       \/ /\ IsSymbol(e.items[1])
          /\ \E n \in 1..Len(KEYWORDS) :
                KEYWORDS[n] = e.items[1].s /\ ~RuleShape(KEYWORDS[n], e)

(* C9: a list that matches no special-form rule and is no application, the *)
(* empty list or a keyword form of the wrong shape such as (if 1 2) or     *)
(* (begin), fails with InvalidSyntax and leaves the environment unchanged. *)
C9_MalformedFormIsInvalidSyntax ==
    [][(Running("evaluate", "start") /\ MatchesNoRule(Top.exp))
        => (exc' = "InvalidSyntax" /\ envs' = envs)]_vars

\* evaluate is about to invoke a value that is not a Procedure.
AtInvoke == Running("evaluate", "app_call") /\ Top.proc.t # "proc"

(* C10, as claimed: whatever makes the invocation of a callable that is    *)
(* not a Procedure fail, the caller of evaluate gets EvaluatorException.   *)
C10_EveryInvocationFailureIsWrapped ==
    [][(AtInvoke /\ exc' # NoExc) => exc' = "EvaluatorException"]_vars

NotCallable(v) == v.t \notin {"prim", "proc"}
WrongArgumentCount(p, values) ==
    p.t = "prim" /\ p.s \in {"+", "-", "=", "//", "apply"} /\ Len(values) # 2
WrongArgumentType(p, values) ==
    /\ p.t = "prim" /\ Len(values) = 2
    /\ \/ p.s \in {"-", "//"} /\ ~(IsNum(values[1]) /\ IsNum(values[2]))
       \/ p.s = "+" /\ IsNum(values[1]) # IsNum(values[2])
       \/ p.s = "apply" /\ values[2].t \in {"int", "bool", "none"}
DivisionByZero(p, values) ==
    /\ p = Prim("//") /\ Len(values) = 2
    /\ IsNum(values[1]) /\ IsNum(values[2]) /\ NumOf(values[2]) = 0

(* C10, amended: a failure the host reports as a TypeError (a wrong number *)
(* of arguments, an argument of the wrong type, an operator value that is  *)
(* not callable) reaches the caller of evaluate as EvaluatorException and  *)
(* never as a TypeError; another host error of the primitive, such as the  *)
(* ZeroDivisionError of (// 1 0), leaves evaluate as it is.                *)
C10_TypeErrorsAreWrapped ==
    [][/\ AtInvoke =>
            /\ exc' # "TypeError"
            /\ ( \/ NotCallable(Top.proc)
                 \/ WrongArgumentCount(Top.proc, Top.vals)
                 \/ WrongArgumentType(Top.proc, Top.vals) )
                  => exc' = "EvaluatorException"
            /\ DivisionByZero(Top.proc, Top.vals) => exc' = "ZeroDivisionError"
       /\ (exc = "TypeError" /\ Len(stack) >= 2 /\ InTry(Caller))
            => exc' = "EvaluatorException"]_vars

\* (+ 1 (quote a)) has failed with EvaluatorException.
C10_Witness ==
    /\ stack # <<>> /\ Top.fn = "evaluate" /\ Top.pc = "raised"
    /\ Top.proc = Prim("+") /\ Top.vals = <<Num(1), Sym("a")>>
    /\ exc = "EvaluatorException"

----------------------------------------------------------------------------
\* The token sequence the running parse was given.
Given ==
    IF line = 2 THEN tokenize(lispstr(stack[1].result)) ELSE tokenize(source)

\* Where the expression that starts at the first token of T ends: 1 for an
\* atom, the index of the matching ')' for a list, 0 when T runs out first.
RECURSIVE MatchingClose(_, _, _)
MatchingClose(T, k, open) ==
    IF k > Len(T) THEN 0
    ELSE IF T[k] = "(" THEN MatchingClose(T, k + 1, open + 1)
    ELSE IF T[k] = ")"
         THEN IF open = 1 THEN k ELSE MatchingClose(T, k + 1, open - 1)
    ELSE MatchingClose(T, k + 1, open)
EndOfFirst(T) == IF T[1] = "(" THEN MatchingClose(T, 2, 1) ELSE 1

OpenMark == [t |-> "open"]
CloseMark == [t |-> "close"]
\* An expression written out in order: its atoms between list marks.
RECURSIVE Flatten(_)
RECURSIVE FlattenAll(_)
FlattenAll(exps) ==
    IF exps = <<>> THEN <<>> ELSE Flatten(Head(exps)) \o FlattenAll(Tail(exps))
Flatten(e) ==
    IF IsList(e) THEN <<OpenMark>> \o FlattenAll(e.items) \o <<CloseMark>>
    ELSE <<e>>
\* The first n tokens of T read one by one.
TokensRead(T, n) ==
    [k \in 1..n |-> IF T[k] = "(" THEN OpenMark
                    ELSE IF T[k] = ")" THEN CloseMark
                    ELSE parse_atom(T[k])]

ParseFailed == exc # NoExc /\ (line = 1 \/ stack # <<>>)
ParseReturned ==
    /\ exc = NoExc /\ line >= 1 /\ Len(stack) = line
    /\ Top.fn = "parse" /\ Top.pc = "done"

(* C11: parse reads the tokens left to right through the one cursor and    *)
(* reads one expression.  It fails with UnexpectedEndOfSource exactly when *)
(* the tokens are empty or run out inside an open list, with               *)
(* UnexpectedCloseParen exactly when the first token is ')', and otherwise *)
(* returns the expression of the shortest balanced prefix and leaves every *)
(* token after it unread, with no error.                                   *)
C11_ParseReadsOneExpression ==
    /\ [](LET T == Given
              runsOut == T = <<>> \/ (T[1] = "(" /\ EndOfFirst(T) = 0)
              closes == T # <<>> /\ T[1] = ")"
          IN  /\ ParseFailed =>
                    /\ exc \in {"UnexpectedEndOfSource", "UnexpectedCloseParen"}
                    /\ exc = "UnexpectedEndOfSource" <=> runsOut
                    /\ exc = "UnexpectedCloseParen" <=> closes
              /\ ParseReturned =>
                    /\ ~runsOut /\ ~closes
                    /\ Flatten(Top.result) = TokensRead(T, EndOfFirst(T))
                    /\ tokens = SubSeq(T, EndOfFirst(T) + 1, Len(T)))
    /\ [][/\ line' = line =>
                \/ tokens' = tokens
                \/ tokens # <<>> /\ tokens' = Tail(tokens)
          /\ line' # line => tokens' = Given']_vars

\* "(a)1" was parsed: the result is (a) and the token 1 is left unread.
C11_Witness ==
    /\ ParseReturned /\ line = 1 /\ source = "(a)1"
    /\ Top.result = L(<<Sym("a")>>) /\ tokens = <<"1">>

----------------------------------------------------------------------------
\* The token is an integer written the one way str() writes it: 0, or an
\* optional minus sign and digits that do not start with 0.
CanonicalInt(token) ==
    /\ IsIntToken(token)
    /\ CharAt(token, 1) # "+"
    /\ \/ token = "0"
       \/ CharAt(Unsigned(token), 1) # "0"

\* The text is one balanced expression and nothing else, and each of its
\* atoms is a symbol or a canonically written integer.
OneCanonicalExpression(s) ==
    LET T == tokenize(s) IN
    /\ T # <<>> /\ T[1] # ")"
    /\ EndOfFirst(T) = Len(T)
    /\ \A k \in 1..Len(T) : IsIntToken(T[k]) => CanonicalInt(T[k])

\* The tokens written with one blank between two elements and none after
\* an opening or before a closing parenthesis.
RECURSIVE Normalized(_)
Normalized(T) ==
    IF Len(T) <= 1 THEN (IF T = <<>> THEN "" ELSE T[1])
    ELSE T[1] \o (IF T[1] = "(" \/ T[2] = ")" THEN "" ELSE " ")
              \o Normalized(Tail(T))

(* C12: for a text s that is one balanced expression of parentheses,       *)
(* symbols and canonically written integers, lispstr(parse(s)) is s with   *)
(* its whitespace normalised, and parse(lispstr(parse(s))) = parse(s).     *)
C12_ParseLispstrRoundTrip ==
    (ParseReturned /\ OneCanonicalExpression(source)) =>
        /\ lispstr(stack[1].result) = Normalized(tokenize(source))
        /\ line = 2 => stack[2].result = stack[1].result

\* "( a  -1 )" was parsed, rendered as "(a -1)" and parsed again.
C12_Witness ==
    /\ ParseReturned /\ line = 2 /\ source = "( a  -1 )"
    /\ OneCanonicalExpression(source)
    /\ lispstr(stack[1].result) = "(a -1)"
    /\ stack[2].result = L(<<Sym("a"), Num(-1)>>)

----------------------------------------------------------------------------
\* The expression is a list whose head is a reserved keyword.
KeywordHead(e) ==
    /\ IsList(e) /\ e.items # <<>> /\ IsSymbol(e.items[1])
    /\ \E n \in 1..Len(KEYWORDS) : KEYWORDS[n] = e.items[1].s
\* The keyword whose rule a case of evaluate is.
RuleKeyword(c) == IF c = "define_proc" THEN "define" ELSE c
\* Where an invocation of evaluate is while it evaluates an application.
ApplicationPoints == {"app_op", "app_arg", "app_call", "try_call"}
\* Name is bound in some frame of environment e.
BoundIn(h, e, name) == \E n \in 1..Len(Chain(h, e)) : name \in DOMAIN h[Chain(h, e)[n]].vars

(* C13: a list whose head is a reserved keyword is never evaluated as an   *)
(* application, whether or not the keyword's name is bound to a callable:  *)
(* it is taken by the rule of that keyword or rejected with InvalidSyntax, *)
(* and its head is never evaluated to find what to call.                   *)
C13_KeywordFormIsNeverAnApplication ==
    /\ [](\A n \in 1..Len(stack) :
            (stack[n].fn = "evaluate" /\ KeywordHead(stack[n].exp))
                => stack[n].pc \notin ApplicationPoints)
    /\ [][(Running("evaluate", "start") /\ KeywordHead(Top.exp)) =>
            /\ \/ RuleKeyword(Case(Top.exp)) = Top.exp.items[1].s
               \/ Case(Top.exp) = "invalid" /\ exc' = "InvalidSyntax"
            /\ ~(/\ Len(stack') = Len(stack) + 1
                 /\ stack'[Len(stack)].pc = "app_op")]_vars

\* With if bound to the primitive list, (if 0 1 2) has given 2 and not the
\* list (0 1 2), and if is still bound to the primitive.
C13_Witness ==
    /\ Finished /\ Len(script) = 4
    /\ script[3] = If(Num(0), Num(1), Num(2))
    /\ BoundIn(envs, 1, "if") /\ envs[1].vars["if"] = Prim("list")
    /\ out = <<"2", "<function <lambda>>">>

----------------------------------------------------------------------------
\* Every parameter of the procedure is a Symbol.
SymbolParms(p) == \A n \in 1..Len(p.parms) : IsSymbol(p.parms[n])
\* The environment of the invocation that takes the step, when the step is
\* one that binds or assigns.
ActingEnv ==
    IF Returned("evaluate", "define_value") \/ Returned("evaluate", "set_value")
    THEN Caller.env ELSE Top.env
ChainSet(h, e) == {Chain(h, e)[n] : n \in 1..Len(Chain(h, e))}

(* C14: every application of a Procedure, by the trampoline or by          *)
(* Procedure.__call__, makes one new frame in front of the procedure's     *)
(* defining environment, a frame no other invocation and no Procedure      *)
(* holds; a step changes only frames of the chain of the environment it    *)
(* runs in, so what one application binds, defines or assigns to its       *)
(* parameters is not seen by another application or by a closure made by   *)
(* another call.                                                           *)
C14_ApplicationFramesAreDistinct ==
    /\ [](Finished =>
            /\ script = CounterScript => out = <<"1", "2", "11", "3">>
            /\ script = AddersScript => out = <<"4", "5", "4">>
            /\ script = SumScript => out = <<"6", "3">>
            /\ script = RebindScript => out = <<"2", "2", "6", "2">>)
    /\ [][/\ (AtApply /\ SymbolParms(AppliedProc)) =>
                /\ exc' = NoExc
                /\ Len(envs') = Len(envs) + 1
                /\ envs'[Len(envs')].parent = AppliedProc.env
                /\ \A k \in 1..Len(envs) : envs'[k] = envs[k]
                /\ stack'[Len(stack')].env = Len(envs')
                /\ \A n \in 1..(Len(stack') - 1) : stack'[n].env # Len(envs')
                /\ \A id \in 1..Len(procs') : procs'[id].env # Len(envs')
          /\ \A k \in 1..Len(envs) :
                envs'[k] # envs[k] =>
                    stack # <<>> /\ k \in ChainSet(envs, ActingEnv)]_vars

\* Two counters made by two calls of make-counter have counted apart: one
\* frame holds n = 3, another n = 11.
C14_Witness ==
    /\ Finished /\ script = CounterScript /\ out = <<"1", "2", "11", "3">>
    /\ \E a, b \in 1..Len(envs) :
          /\ a # b /\ envs[a].parent = 1 /\ envs[b].parent = 1
          /\ "n" \in DOMAIN envs[a].vars /\ envs[a].vars["n"] = Num(3)
          /\ "n" \in DOMAIN envs[b].vars /\ envs[b].vars["n"] = Num(11)

----------------------------------------------------------------------------
\* The parameters of the procedure are Symbols, no two the same.
DistinctParms(p) ==
    /\ SymbolParms(p)
    /\ \A m, n \in 1..Len(p.parms) : p.parms[m] = p.parms[n] => m = n
\* The argument values of the application about to be made.
AppliedArgs ==
    IF Top.proc.t = "proc" THEN Top.vals ELSE Invoke(Top.proc, Top.vals).args
Min(a, b) == IF a <= b THEN a ELSE b

(* C15: applying a Procedure of p distinct parameter names to k values     *)
(* never fails at the application: the new frame binds the first min(p, k) *)
(* parameters to the first min(p, k) values in order and nothing else, so  *)
(* surplus values are dropped and a reference to a surplus parameter is    *)
(* resolved in the defining environment or fails with UndefinedSymbol.     *)
C15_ParametersPairedUpToShorter ==
    /\ [](Finished =>
            \A p \in 0..MaxParms, k \in 0..(MaxParms + 1), r \in 0..MaxParms,
               direct \in BOOLEAN :
                script = ArityScript(p, k, r, direct) =>
                    IF r = 0 THEN out = <<"0">> /\ exc = NoExc
                    ELSE IF r <= Min(p, k) THEN out = <<NatStr(r)>> /\ exc = NoExc
                    ELSE IF ParmNames[r] = "b" THEN out = <<"9">> /\ exc = NoExc
                    ELSE out = <<>> /\ exc = "UndefinedSymbol")
    /\ [][(AtApply /\ DistinctParms(AppliedProc)) =>
            LET parms == AppliedProc.parms
                bound == Min(Len(parms), Len(AppliedArgs))
            IN  /\ exc' = NoExc
                /\ Len(envs') = Len(envs) + 1
                /\ DOMAIN envs'[Len(envs')].vars = {parms[n].s : n \in 1..bound}
                /\ \A n \in 1..bound :
                      envs'[Len(envs')].vars[parms[n].s] = AppliedArgs[n]]_vars

\* f of two parameters a and b was applied to the one value 1: its frame
\* binds a alone, and the reference to b has found the global b = 9.
C15_Witness ==
    /\ Finished /\ script = ArityScript(2, 1, 2, FALSE) /\ out = <<"9">>
    /\ DOMAIN envs[Len(envs)].vars = {"a"}
    /\ envs[Len(envs)].vars["a"] = Num(1)

----------------------------------------------------------------------------
(* C16: once a sub-evaluation of a top-level form has raised, the          *)
(* top-level evaluate ends with an error: the exception is never dropped,  *)
(* no further expression is evaluated and no environment changes from the  *)
(* raise on, so a define or set! whose value fails binds nothing; what was *)
(* changed before the raise stays changed.                                 *)
C16_ErrorAbortsTopLevelForm ==
    /\ [](Finished =>
            \A f \in Failing :
                script = AbortScript(f) =>
                    /\ exc # NoExc /\ line = 2 /\ out = <<>>
                    /\ "y" \notin DOMAIN envs[1].vars
                    /\ envs[1].vars["x"] \in {Num(1), Num(2)}
                    /\ envs[1].vars["x"] = Num(2) <=>
                          f \in {App("list", <<Bump(1), Sym("nope"), Bump(1)>>),
                                 App("apply", <<Lambda(<<>>, <<Bump(1), Sym("nope"), Bump(1)>>),
                                                App("list", <<>>)>>)})
    /\ [][/\ exc # NoExc =>
                /\ exc' # NoExc
                /\ envs' = envs /\ procs' = procs /\ out' = out /\ line' = line
                /\ Len(stack') < Len(stack)
                /\ \A n \in 1..(Len(stack') - 1) : stack'[n] = stack[n]
                /\ stack' # <<>> =>
                      /\ stack'[Len(stack')].exp = stack[Len(stack')].exp
                      /\ stack'[Len(stack')].pc \in {stack[Len(stack')].pc, "raised"}
          /\ (exc = NoExc /\ exc' # NoExc) => envs' = envs /\ procs' = procs]_vars

\* (begin (set! x (+ x 1)) (define y nope) (set! x (+ x 1))) has failed:
\* x is 1, y is not bound, and the REPL has stopped at this form.
C16_Witness ==
    /\ Finished /\ script = AbortScript(Define("y", Sym("nope")))
    /\ exc = "UndefinedSymbol" /\ line = 2
    /\ envs[1].vars["x"] = Num(1) /\ "y" \notin DOMAIN envs[1].vars

----------------------------------------------------------------------------
\* The value of an operand of the logic scripts evaluated when x is x.
OperandValue(op, x) ==
    CASE op = Num(0) -> Num(0)
      [] op = Num(2) -> Num(2)
      [] op = Quote(L(<<>>)) -> L(<<>>)
      [] op = Bump(10) -> None
      [] op = Begin(<<Bump(1), Sym("x")>>) -> Num(x + 1)
      [] op = Sym("u") -> Unbound

\* The value of the form: that of the first operand that is truthy (or) or
\* falsy (and), else that of the last operand, else `last`.
RECURSIVE LogicValue(_, _, _, _)
LogicValue(ops, isOr, x, last) ==
    IF ops = <<>> THEN last
    ELSE LET e == OperandEffect(Head(ops))
             v == OperandValue(Head(ops), x)
         IN  IF e.truthy = isOr THEN v
             ELSE LogicValue(Tail(ops), isOr, x + e.dx, v)

\* The form of a logic script has been evaluated without an error.
LogicFormEvaluated ==
    /\ script \in LogicScripts /\ line = 2 /\ exc = NoExc
    /\ Len(stack) = 1 /\ Top.pc = "done"

(* C17: (or e1 ... ek) gives the value of the first truthy operand, else   *)
(* the value of the last operand, and False when k = 0; (and e1 ... ek)    *)
(* gives the value of the first falsy operand, else the value of the last  *)
(* operand, and True when k = 0; the value is the operand's own, not a     *)
(* boolean made from it.                                                   *)
C17_LogicFormsReturnOperandValue ==
    LogicFormEvaluated =>
        LET form == script[2]
            isOr == HeadIs(form, "or")
        IN  Top.result = LogicValue(Tail(form.items), isOr, 0, Bool(~isOr))

\* (and 2 (quote ())) has given the empty list, the value of its falsy
\* operand, not False.
C17_Witness ==
    /\ LogicFormEvaluated
    /\ script[2] = And(<<Num(2), Quote(L(<<>>))>>)
    /\ Top.result = L(<<>>)

----------------------------------------------------------------------------
\* The application about to be made goes through Procedure.__call__.
DirectPath == Top.proc.t # "proc"
\* The invocation that runs the body of the procedure just applied.
BodyRunner == stack'[Len(stack')]

(* C18: applying a Procedure by the trampoline and by Procedure.__call__   *)
(* is the same: both make the frame application_env(args) gives, evaluate  *)
(* the expressions of the body in order in it, and the applying evaluate   *)
(* returns the value of the last one; an error raised by application_env   *)
(* or by the body leaves the applying evaluate as that same error on       *)
(* either path, and no frame is changed by anything but the body.          *)
C18_TrampolineAndCallAgree ==
    [][/\ AtApply =>
            LET a == ApplicationEnv(envs, AppliedProc, AppliedArgs)
            IN  IF a.ok
                THEN /\ exc' = NoExc /\ envs' = a.h
                     /\ BodyRunner.env = a.env
                     /\ BodyRunner.exp.items =
                            IF DirectPath THEN AppliedProc.body
                            ELSE <<Sym("begin")>> \o AppliedProc.body
                ELSE /\ exc' = "TypeError" /\ envs' = envs
                     /\ stack'[Len(stack')].pc = "raised"
       /\ Running("__call__", "loop") =>
            /\ envs' = envs
            /\ IF Top.i < Len(Top.exp.items)
               THEN /\ BodyRunner.exp = Top.exp.items[Top.i + 1]
                    /\ BodyRunner.env = Top.env
               ELSE BodyRunner.pc = "done" /\ BodyRunner.result = Top.result
       /\ Returned("__call__", "value") =>
            envs' = envs /\ BodyRunner.result = Top.result
       /\ Returned("evaluate", "try_call") =>
            /\ envs' = envs
            /\ BodyRunner.pc = "done" /\ BodyRunner.result = Top.result
       /\ ( /\ exc # NoExc /\ Len(stack) >= 2
            /\ Top.fn = "__call__" /\ Caller.pc = "try_call" ) =>
            exc' = exc /\ envs' = envs]_vars

====
